---- MODULE Spec2Model ----
(***************************************************************************)
(* Scene compiler and frame recorder of panic-panda                        *)
(* (src/src/engine/data_components/data_scene.py, data_shader.py).         *)
(*                                                                         *)
(* A scene description (shaders, meshes, objects) is compiled by           *)
(* DataScene.__init__ in eight steps, each a method called in sequence;    *)
(* every step is one action here.  A Python exception raised by a step     *)
(* aborts the construction: pc becomes "failed" and error names the        *)
(* exception.  record() is an action of the compiled scene.                *)
(*                                                                         *)
(* Python lists are 0-based; sequences here are 1-based, so a Python       *)
(* index i reads element i + 1.  Indices stored in the state (obj.shader,  *)
(* obj.mesh, obj.pipeline) keep their Python (0-based) value.              *)
(***************************************************************************)
EXTENDS Integers, Sequences, FiniteSets, TLC

\* ------------------------------------------------------------------ bounds
MaxShaders == 2
MaxObjects == 3
MaxSets == 2
MaxMeshes == 2
FramebufferCount == 2
MaxScenes == 2
MaxResizes == 1
MaxFields == 2
MaxCount == 2
MaxInputs == 2
MaxPixels == 2

\* --------------------------------------------------------------- constants
\* Python's None for an attribute that otherwise holds an index.
None == -1
\* Python's None / a list, for an attribute that otherwise holds a list.
NoneList == [is_none |-> TRUE, items |-> <<>>]
List(s) == [is_none |-> FALSE, items |-> s]

\* vk.DESCRIPTOR_TYPE_UNIFORM_BUFFER
DESCRIPTOR_TYPE_UNIFORM_BUFFER == 6
\* UniformMemberType
FLOAT_MAT2 == 0
FLOAT_MAT3 == 1
FLOAT_MAT4 == 2
\* sizeof(c_float)
SizeofFloat == 4

\* ---------------------------------------------------------------- helpers
RECURSIVE SeqSum(_)
SeqSum(s) == IF s = <<>> THEN 0 ELSE Head(s) + SeqSum(Tail(s))

RECURSIVE Flatten(_)
Flatten(ss) == IF ss = <<>> THEN <<>> ELSE Head(ss) \o Flatten(Tail(ss))

Range(s) == {s[i] : i \in 1..Len(s)}

\* list.index(x): position (1-based here) of the first occurrence of x
IndexOf(s, x) == CHOOSE i \in 1..Len(s) : s[i] = x /\ \A j \in 1..(i-1) : s[j] # x

\* Python slice s[a:b] of a list (0-based, end clipped to the length)
Slice(s, a, b) ==
    LET hi == IF b < Len(s) THEN b ELSE Len(s)
    IN  IF a >= hi THEN <<>> ELSE [k \in 1..(hi - a) |-> s[a + k]]

\* Python zip: pairs up to the shorter of the two
Min(a, b) == IF a < b THEN a ELSE b

VARIABLES
    scene,                 \* DataScene.scene: the scene description
    pc,                    \* position of DataScene.__init__
    error,                 \* the exception that aborted __init__ or record
    render_cache,          \* DataScene.render_cache
    shaders,               \* DataScene.shaders
    objects,               \* DataScene.objects
    meshes,                \* DataScene.meshes (packed DataMesh list)
    staging,               \* staging buffer / allocation of _setup_objects
    meshes_buffer,         \* DataScene.meshes_buffer / meshes_alloc
    pipelines,             \* DataScene.pipelines
    shader_objects,        \* DataScene.shader_objects (memoized groups)
    shader_objects_sorted, \* DataScene.shader_objects_sorted
    group_calls,           \* what each _group_objects_by_shaders call returned
    descriptor_pool,       \* DataScene.descriptor_pool
    uniforms_buffer,       \* DataScene.uniforms_buffer
    write_log,             \* every buffer range bound by a write set
    render_commands,       \* DataScene.render_commands: one buffer per framebuffer
    engine,                \* Engine: swapchain extent, render target, graph, setup fence
    scene_id,              \* scene.id: the position of the scene in Engine.graph
    on_initialized,        \* how many times scene.on_initialized() was called
    released,              \* the handles destroyed by free(), in order
    ktx                    \* tools/ktxmerge.py: the inputs and the outcome of merge_array

vars == <<scene, pc, error, render_cache, shaders, objects, meshes, staging, meshes_buffer,
          pipelines, shader_objects, shader_objects_sorted, group_calls,
          descriptor_pool, uniforms_buffer, write_log, render_commands,
          engine, scene_id, on_initialized, released, ktx>>

\* What belongs to the engine and to the scene object the engine loads.
engine_vars == <<engine, scene_id, on_initialized, released>>

\* ------------------------------------------------------ scene descriptions
\* One uniform declaration of a shader's reflection mapping.
Uniform(set, binding, mtype) ==
    [name |-> <<set, binding>>, set |-> set, binding |-> binding,
     type |-> DESCRIPTOR_TYPE_UNIFORM_BUFFER, count |-> 1,
     fields |-> <<[type |-> mtype, count |-> 1]>>]

\* The uniforms of a shader that declares nsets descriptor sets: set s declares
\* s + 1 uniform blocks, listed binding-major so that the sets interleave in
\* the declaration order.  nsets = 0 is a shader without uniforms.
MappingUniforms(nsets) ==
    LET decl == [b \in 1..nsets |->
                    [s \in 1..(nsets - b + 1) |->
                        Uniform(s + b - 2, b - 1, (s + b + b) % 3)]]
    IN  Flatten(decl)

ShaderDescriptions == {[uniforms |-> MappingUniforms(n)] : n \in 0..MaxSets}

\* A mesh of the scene: an identity and the size in bytes of its packed data.
MeshObject(id) == [id |-> id, size |-> 8 * id + 4]
NoMesh == [id |-> None, size |-> 0]

SeqsUpTo(S, n) == UNION {[1..k -> S] : k \in 1..n}

\* Mesh lists: every slot holds a mesh or None; the same mesh may fill two
\* slots.  Identities are numbered in order of first appearance.
MeshLists ==
    {ms \in SeqsUpTo({NoMesh} \cup {MeshObject(i) : i \in 1..MaxMeshes}, MaxMeshes) :
        \A k \in 1..Len(ms) :
            ms[k].id > 1 => \E j \in 1..(k-1) : ms[j].id = ms[k].id - 1}

\* The single 4x4-matrix shader and the single mesh of the simplest scene.
Mat4Shader == [uniforms |-> <<Uniform(0, 0, FLOAT_MAT4)>>]

\* Scenes whose shaders and shader references vary (one mesh shared by all).
ShaderScenes ==
    {[shaders |-> ss, meshes |-> <<MeshObject(1)>>, objects |-> os] :
        ss \in SeqsUpTo(ShaderDescriptions \cup {Mat4Shader}, MaxShaders),
        os \in SeqsUpTo([shader : 0..(MaxShaders - 1), mesh : {0}], MaxObjects)}

\* Scenes whose meshes and mesh references vary (one shader shared by all).
MeshScenes ==
    {[shaders |-> <<Mat4Shader>>, meshes |-> ms, objects |-> os] :
        ms \in MeshLists,
        os \in SeqsUpTo([shader : {0}, mesh : {None} \cup (0..(MaxMeshes - 1))], MaxObjects)}

\* Objects reference shaders and meshes of their own scene.
ValidScene(sc) ==
    \A k \in 1..Len(sc.objects) :
        /\ sc.objects[k].shader < Len(sc.shaders)
        /\ sc.objects[k].mesh < Len(sc.meshes)

\* The values a field of the reflection mapping may give as member type: the
\* three of UniformMemberType and one that is none of them.
MemberTypes == FLOAT_MAT2..(FLOAT_MAT4 + 1)

\* Scenes of one object whose shader declares one uniform block; the fields of
\* the block vary in number, member type and member count.
UniformScenes ==
    {[shaders |-> <<[uniforms |-> <<[Uniform(0, 0, FLOAT_MAT4) EXCEPT !.fields = fs]>>]>>,
      meshes |-> <<MeshObject(1)>>,
      objects |-> <<[shader |-> 0, mesh |-> 0]>>] :
        fs \in SeqsUpTo([type : MemberTypes, count : 1..MaxCount], MaxFields)}

\* Scenes of one object whose shader declares one block of another descriptor
\* type than the uniform buffer.
DescriptorTypeScenes ==
    {[shaders |-> <<[uniforms |-> <<[Uniform(0, 0, FLOAT_MAT4) EXCEPT
                                        !.type = DESCRIPTOR_TYPE_UNIFORM_BUFFER + 1]>>]>>,
      meshes |-> <<MeshObject(1)>>,
      objects |-> <<[shader |-> 0, mesh |-> 0]>>]}

\* Scenes of two objects, each with a shader of its own, that reference two
\* meshes in any order.
MeshOrderScenes ==
    {[shaders |-> <<Mat4Shader, Mat4Shader>>,
      meshes |-> <<MeshObject(1), MeshObject(2)>>,
      objects |-> <<[shader |-> 0, mesh |-> m[1]], [shader |-> 1, mesh |-> m[2]]>>] :
        m \in [1..2 -> 0..1]}

Scenes ==
    {sc \in ShaderScenes \cup MeshScenes \cup UniformScenes \cup DescriptorTypeScenes
            \cup MeshOrderScenes :
        ValidScene(sc)}

\* ------------------------------------------------------------- DataShader
\* The 3x3 matrix taken as three columns of four floats.
uniform_member_as_ctype_padded(value, count1) ==
    IF value = FLOAT_MAT2 THEN count1 * 4
    ELSE IF value = FLOAT_MAT3 THEN count1 * 12
    ELSE IF value = FLOAT_MAT4 THEN count1 * 16
    ELSE None

\* uniform_member_as_ctype: the number of floats of the array type, or None
\* when the member type is no UniformMemberType (ValueError).
uniform_member_as_ctype(value, count1) ==
    IF value = FLOAT_MAT2 THEN count1 * 4
    ELSE IF value = FLOAT_MAT3 THEN count1 * 9
    ELSE IF value = FLOAT_MAT4 THEN count1 * 16
    ELSE None

\* sizeof of the ctypes Structure built for one uniform: its fields are float
\* arrays (alignment 4, which _pack_ = 16 does not raise), laid out back to back.
SizeofStruct(uniform) ==
    SeqSum([f \in 1..Len(uniform.fields) |->
              SizeofFloat * uniform_member_as_ctype(uniform.fields[f].type,
                                                    uniform.fields[f].count)])

InvalidUniform(uniform) ==
    \E f \in 1..Len(uniform.fields) :
        uniform_member_as_ctype(uniform.fields[f].type, uniform.fields[f].count) = None

\* DataShader._group_uniforms_by_sets: the declared set indices in order of
\* first appearance, each with its uniforms in declaration order.
RECURSIVE GroupUniformsLoop(_, _, _)
GroupUniformsLoop(uniforms, k, by_dset) ==
    IF k > Len(uniforms) THEN by_dset
    ELSE LET u == uniforms[k]
             known == {i \in 1..Len(by_dset) : by_dset[i][1] = u.set}
         IN  IF known # {}
             THEN LET i == CHOOSE i \in known : TRUE
                  IN  GroupUniformsLoop(uniforms, k + 1,
                          [by_dset EXCEPT ![i] = <<@[1], Append(@[2], u)>>])
             ELSE GroupUniformsLoop(uniforms, k + 1,
                          Append(by_dset, <<u.set, <<u>>>>))

GroupUniformsBySets(uniforms) == GroupUniformsLoop(uniforms, 1, <<>>)

\* counts[dtype] += dcount over the uniforms of one set, as (type, count) pairs
\* in order of first appearance (tuple(counts.items())).
RECURSIVE PoolSizeCounts(_, _, _)
PoolSizeCounts(uniforms, k, counts) ==
    IF k > Len(uniforms) THEN counts
    ELSE LET u == uniforms[k]
             known == {i \in 1..Len(counts) : counts[i][1] = u.type}
         IN  IF known # {}
             THEN LET i == CHOOSE i \in known : TRUE
                  IN  PoolSizeCounts(uniforms, k + 1,
                          [counts EXCEPT ![i] = <<@[1], @[2] + u.count>>])
             ELSE PoolSizeCounts(uniforms, k + 1, Append(counts, <<u.type, u.count>>))

\* structs[uniform_name] = struct: a later uniform of the same name replaces
\* the earlier one; the result lists (name, sizeof) once per name.
StructMap(uniforms) ==
    {<<uniforms[k].name, SizeofStruct(uniforms[k])>> :
        k \in {k \in 1..Len(uniforms) :
                 \A j \in (k+1)..Len(uniforms) : uniforms[j].name # uniforms[k].name}}

RECURSIVE SumSizes(_)
SumSizes(S) ==
    IF S = {} THEN 0
    ELSE LET e == CHOOSE e \in S : TRUE IN e[2] + SumSizes(S \ {e})

\* DescriptorSetLayout built for the position-th set of shader_index.
DescriptorSetLayout(shader_index, position, uniforms) ==
    [set_layout |-> <<"set_layout", shader_index, position>>,
     struct_map |-> StructMap(uniforms),
     pool_size_counts |-> PoolSizeCounts(uniforms, 1, <<>>),
     write_set_templates |->
        [k \in 1..Len(uniforms) |->
            [descriptor_type |-> uniforms[k].type,
             range |-> SizeofStruct(uniforms[k]),
             binding |-> uniforms[k].binding]],
     struct_map_size_bytes |-> SumSizes(StructMap(uniforms))]

\* DataShader._setup_descriptor_layouts: None when the shader has no uniforms.
SetupDescriptorLayouts(shader_index, mapping) ==
    IF Len(mapping.uniforms) = 0 THEN NoneList
    ELSE LET by_dset == GroupUniformsBySets(mapping.uniforms)
         IN  List([p \in 1..Len(by_dset) |->
                     DescriptorSetLayout(shader_index, p, by_dset[p][2])])

\* DataShader.__init__: the compiled shader of scene.shaders[shader_index].
DataShader(shader_index, mapping) ==
    [modules |-> <<<<"module", shader_index, 0>>, <<"module", shader_index, 1>>>>,
     stage_infos |-> <<"stages", shader_index>>,
     vertex_input_state |-> <<"vertex_input", shader_index>>,
     descriptor_set_layouts |-> SetupDescriptorLayouts(shader_index, mapping),
     pipeline_layout |-> <<"pipeline_layout", shader_index>>]

\* ------------------------------------------------------------------ Engine
\* Window(width=800, height=600): the extent of the first swapchain.
DefaultExtent == <<800, 600>>

\* The extents a window resize may bring.
Extents == {DefaultExtent, <<640, 480>>}

\* A wait that returns whatever the state of the fence.
FenceWaitReturnsAtOnce(fence) == TRUE

\* vk.wait_for_fences(fences=(setup_fence,), wait_all=True, timeout=infinite)
\* returns once the fence is signaled.
FenceWaitReturns(fence) == fence = "signaled"

\* --------------------------------------------------------------- DataScene
InitOf(scenes) ==
    /\ scene \in scenes
    /\ pc = "setup_shaders"
    /\ error = "none"
    /\ render_cache = [set |-> FALSE, framebuffer |-> 0, render_pass |-> None,
                       extent |-> <<0, 0>>]
    /\ shaders = <<>>
    /\ objects = <<>>
    /\ meshes = <<>>
    /\ staging = [state |-> "none", buffer_size |-> 0, alloc_size |-> 0]
    /\ meshes_buffer = [state |-> "none", size |-> 0, copied |-> 0]
    /\ pipelines = <<>>
    /\ shader_objects = <<>>
    /\ shader_objects_sorted = FALSE
    /\ group_calls = <<>>
    /\ descriptor_pool = [created |-> FALSE, max_sets |-> 0, pool_sizes |-> <<>>,
                        allocated |-> 0, requests |-> <<>>]
    /\ uniforms_buffer = [created |-> FALSE, size |-> 0]
    /\ write_log = <<>>
    /\ render_commands = <<>>
    /\ engine = [swapchain_extent |-> DefaultExtent, render_target |-> 0,
                 graph |-> <<>>, current_scene_index |-> None,
                 setup_fence |-> "unsignaled", in_flight |-> 0]
    /\ scene_id = None
    /\ on_initialized = 0
    /\ released = <<>>

\* ktxmerge.py is not run.
NoMerge == [state |-> "none", inputs |-> <<>>, error |-> "none", header |-> <<>>]

Init == InitOf(Scenes) /\ ktx = NoMerge

\* An exception that is dropped: the caller goes on as if the call had returned.
FailSwallowed(exception) ==
    /\ pc' = "constructed"
    /\ error' = exception

\* An exception leaves the call (DataScene.__init__, record or free) and
\* nothing catches it.
Fail(exception) ==
    /\ pc' = "failed"
    /\ error' = exception

\* DataScene._setup_shaders
SetupShaders ==
    /\ pc = "setup_shaders"
    /\ IF \E i \in 1..Len(scene.shaders) :
            \E k \in 1..Len(scene.shaders[i].uniforms) :
                InvalidUniform(scene.shaders[i].uniforms[k])
       THEN /\ Fail("ValueError")
            /\ UNCHANGED shaders
       ELSE /\ shaders' = [i \in 1..Len(scene.shaders) |-> DataShader(i - 1, scene.shaders[i])]
            /\ pc' = "setup_objects"
            /\ UNCHANGED error
    /\ UNCHANGED <<render_cache, scene, objects, meshes, staging, meshes_buffer, pipelines,
                   shader_objects, shader_objects_sorted, group_calls,
                   descriptor_pool, uniforms_buffer, write_log, render_commands>>
    /\ UNCHANGED engine_vars
    /\ UNCHANGED ktx

\* DataGameObject(obj): the fields that compilation fills start as None.
DataGameObject(obj) ==
    [shader |-> obj.shader, mesh |-> obj.mesh, pipeline |-> None,
     descriptor_sets |-> NoneList, write_sets |-> NoneList]

\* DataMesh(mesh, base_offset)
DataMesh(mesh, base_offset) == [mesh |-> mesh, base_offset |-> base_offset]

\* PackMeshes without the identity lookup: a mesh is packed once per reference.
RECURSIVE PackMeshesNoLookup(_, _, _)
PackMeshesNoLookup(sc, k, acc) ==
    IF k > Len(sc.objects) \/ acc.error # "none" THEN acc
    ELSE LET obj == sc.objects[k]
         IN  IF obj.mesh = None
             THEN [acc EXCEPT !.error = "TypeError"]
             ELSE LET mesh == sc.meshes[obj.mesh + 1]
                  IN  IF mesh.id # None
                      THEN PackMeshesNoLookup(sc, k + 1,
                              [acc EXCEPT
                                 !.mesh_cache_lookup = Append(@, mesh.id),
                                 !.data_meshes = Append(@, DataMesh(mesh, acc.staging_mesh_offset)),
                                 !.staging_mesh_offset = @ + mesh.size])
                      ELSE PackMeshesNoLookup(sc, k + 1, acc)

\* PackMeshes advancing the offset by the size of the first mesh of the scene
\* whatever the mesh packed.
RECURSIVE PackMeshesFixedStride(_, _, _)
PackMeshesFixedStride(sc, k, acc) ==
    IF k > Len(sc.objects) \/ acc.error # "none" THEN acc
    ELSE LET obj == sc.objects[k]
         IN  IF obj.mesh = None
             THEN [acc EXCEPT !.error = "TypeError"]
             ELSE LET mesh == sc.meshes[obj.mesh + 1]
                  IN  IF mesh.id # None /\ mesh.id \notin Range(acc.mesh_cache_lookup)
                      THEN PackMeshesFixedStride(sc, k + 1,
                              [acc EXCEPT
                                 !.mesh_cache_lookup = Append(@, mesh.id),
                                 !.data_meshes = Append(@, DataMesh(mesh, acc.staging_mesh_offset)),
                                 !.staging_mesh_offset = @ + sc.meshes[1].size])
                      ELSE PackMeshesFixedStride(sc, k + 1, acc)

\* The first loop of _setup_objects over scene.objects[k..]: the packed meshes,
\* their identities and the running staging offset; meshes[None] is a TypeError.
RECURSIVE PackMeshes(_, _, _)
PackMeshes(sc, k, acc) ==
    IF k > Len(sc.objects) \/ acc.error # "none" THEN acc
    ELSE LET obj == sc.objects[k]
         IN  IF obj.mesh = None
             THEN [acc EXCEPT !.error = "TypeError"]
             ELSE LET mesh == sc.meshes[obj.mesh + 1]
                  IN  IF mesh.id # None /\ mesh.id \notin Range(acc.mesh_cache_lookup)
                      THEN PackMeshes(sc, k + 1,
                              [acc EXCEPT
                                 !.mesh_cache_lookup = Append(@, mesh.id),
                                 !.data_meshes = Append(@, DataMesh(mesh, acc.staging_mesh_offset)),
                                 !.staging_mesh_offset = @ + mesh.size])
                      ELSE PackMeshes(sc, k + 1, acc)

PackStart ==
    [error |-> "none", mesh_cache_lookup |-> <<>>, data_meshes |-> <<>>,
     staging_mesh_offset |-> 0]

\* mem.alloc: the allocation covers the buffer and may be rounded up to the
\* memory requirements of the device.
AllocSizes(size) == {size, size + ((16 - (size % 16)) % 16)}

\* The size given to the device-local mesh buffer and to the copy region.
MeshBufferSize(staging_buffer_size, staging_alloc_size) == staging_alloc_size

\* DataScene._setup_objects up to the queue submission of
\* Engine.submit_setup_command(wait=True): pack, stage, create the mesh
\* buffer, record the copy and submit it with the setup fence.
SetupObjects ==
    /\ pc = "setup_objects"
    /\ LET packed == PackMeshes(scene, 1, PackStart)
       IN  IF packed.error # "none"
           THEN /\ Fail(packed.error)
                /\ UNCHANGED <<objects, meshes, staging, meshes_buffer, engine>>
           ELSE \/ \* a buffer of size 0 is invalid usage: creation may be refused
                   /\ packed.staging_mesh_offset = 0
                   /\ Fail("VkError")
                   /\ UNCHANGED <<objects, meshes, staging, meshes_buffer, engine>>
                \/ \E alloc_size \in AllocSizes(packed.staging_mesh_offset) :
                       /\ staging' = [state |-> "staged",
                                      buffer_size |-> packed.staging_mesh_offset,
                                      alloc_size |-> alloc_size]
                       /\ meshes_buffer' =
                              [state |-> "created",
                               size |-> MeshBufferSize(packed.staging_mesh_offset, alloc_size),
                               copied |-> 0]
                       /\ engine' = [engine EXCEPT !.in_flight = @ + 1]
                       /\ pc' = "setup_objects_wait"
                       /\ UNCHANGED <<error, objects, meshes>>
    /\ UNCHANGED <<render_cache, scene, shaders, pipelines, shader_objects, shader_objects_sorted,
                   group_calls, descriptor_pool, uniforms_buffer, write_log,
                   render_commands, scene_id, on_initialized, released>>
    /\ UNCHANGED ktx

\* The device executes the submitted copy from the staging buffer to the mesh
\* buffer and signals the fence given to vk.queue_submit.
QueueExecutes ==
    /\ engine.in_flight > 0
    /\ meshes_buffer' = [meshes_buffer EXCEPT !.copied = meshes_buffer.size]
    /\ engine' = [engine EXCEPT !.in_flight = @ - 1, !.setup_fence = "signaled"]
    /\ UNCHANGED <<scene, pc, error, render_cache, shaders, objects, meshes, staging,
                   pipelines, shader_objects, shader_objects_sorted, group_calls,
                   descriptor_pool, uniforms_buffer, write_log, render_commands,
                   scene_id, on_initialized, released>>
    /\ UNCHANGED ktx

\* The rest of Engine.submit_setup_command(wait=True) and of _setup_objects:
\* wait for the setup fence, reset it, store the packed meshes and the
\* objects, destroy the staging buffer and free its allocation.
SetupObjectsWait ==
    /\ pc = "setup_objects_wait"
    /\ FenceWaitReturns(engine.setup_fence)
    /\ engine' = [engine EXCEPT !.setup_fence = "unsignaled"]
    /\ meshes' = PackMeshes(scene, 1, PackStart).data_meshes
    /\ objects' = [k \in 1..Len(scene.objects) |-> DataGameObject(scene.objects[k])]
    /\ staging' = [staging EXCEPT !.state = "freed"]
    /\ pc' = "setup_pipelines"
    /\ UNCHANGED <<scene, error, render_cache, shaders, meshes_buffer,
                   pipelines, shader_objects, shader_objects_sorted, group_calls,
                   descriptor_pool, uniforms_buffer, write_log, render_commands,
                   scene_id, on_initialized, released>>
    /\ UNCHANGED ktx

\* The loop of _group_objects_by_shaders over objs[k..]: groups are pairs
\* (shader index, objects), objects given by their position in DataScene.objects.
RECURSIVE GroupLoop(_, _, _, _)
GroupLoop(objs, k, shaders_index, groups) ==
    IF k > Len(objs) THEN groups
    ELSE LET s == objs[k].shader
         IN  IF s \in Range(shaders_index)
             THEN LET i == IndexOf(shaders_index, s)
                  IN  GroupLoop(objs, k + 1, shaders_index,
                                [groups EXCEPT ![i] = <<@[1], Append(@[2], k)>>])
             ELSE GroupLoop(objs, k + 1, Append(shaders_index, s),
                            Append(groups, <<s, <<k>>>>))

\* Grouping that never merges: every object opens a group of its own.
GroupObjectsNoMerge(objs) == [k \in 1..Len(objs) |-> <<objs[k].shader, <<k>>>>]

\* Grouping ordered by shader index instead of by first occurrence.
GroupObjectsSorted(objs) ==
    LET S == {objs[k].shader : k \in 1..Len(objs)}
        order == CHOOSE o \in [1..Cardinality(S) -> S] :
                    \A i, j \in 1..Cardinality(S) : i < j => o[i] < o[j]
    IN  [g \in 1..Cardinality(S) |->
            <<order[g], SelectSeq([k \in 1..Len(objs) |-> k],
                                  LAMBDA k : objs[k].shader = order[g])>>]

GroupObjects(objs) == GroupLoop(objs, 1, <<>>, <<>>)

\* The memo flag set without the groups being kept: later calls return nothing.
GroupObjectsByShadersLostMemo ==
    IF shader_objects_sorted THEN <<>> ELSE GroupObjects(objects)

\* What a call of _group_objects_by_shaders returns in the current state.
GroupObjectsByShaders ==
    IF shader_objects_sorted THEN shader_objects ELSE GroupObjects(objects)

\* The effect of that call on the memo (groups is what it returned).
GroupCall(groups) ==
    /\ shader_objects_sorted' = TRUE
    /\ shader_objects' = groups
    /\ group_calls' = Append(group_calls, groups)

\* The index _setup_pipelines writes to obj.pipeline for the objects of the
\* group at position (0-based) of the group list.
PipelineIndexOf(position, shader_index) == shader_index

\* The pipeline created from the create-info of one group.
Pipeline(handle, shader, extent) ==
    [handle |-> handle, viewport |-> extent, stages |-> shader.stage_infos,
     vertex_input_state |-> shader.vertex_input_state,
     layout |-> shader.pipeline_layout]

\* The group (1-based position) an object position belongs to.
GroupOf(groups, k) == CHOOSE g \in 1..Len(groups) : k \in Range(groups[g][2])

\* DataScene._setup_pipelines
SetupPipelines ==
    /\ pc = "setup_pipelines"
    /\ LET groups == GroupObjectsByShaders
       IN  /\ GroupCall(groups)
           /\ objects' = [k \in 1..Len(objects) |->
                            IF \E g \in 1..Len(groups) : k \in Range(groups[g][2])
                            THEN [objects[k] EXCEPT
                                    !.pipeline = PipelineIndexOf(GroupOf(groups, k) - 1,
                                                                 groups[GroupOf(groups, k)][1])]
                            ELSE objects[k]]
           /\ pipelines' = [g \in 1..Len(groups) |-> Pipeline(g, shaders[groups[g][1] + 1],
                                                                     engine.swapchain_extent)]
    /\ pc' = "setup_descriptor_sets_pool"
    /\ UNCHANGED <<render_cache, scene, error, shaders, meshes, staging, meshes_buffer,
                   descriptor_pool, uniforms_buffer, write_log, render_commands>>
    /\ UNCHANGED engine_vars
    /\ UNCHANGED ktx

\* max_sets counting one set per layout, not one per layout and object.
PoolMaxSetsPerLayout(groups, shs) ==
    SeqSum([g \in 1..Len(groups) |->
              LET layouts == shs[groups[g][1] + 1].descriptor_set_layouts
              IN  IF layouts.is_none THEN 0
                  ELSE SeqSum([l \in 1..Len(layouts.items) |-> 1])])

\* max_sets of _setup_descriptor_sets_pool: object_count is added once per set
\* layout of the group's shader; a shader without layouts is skipped.
PoolMaxSets(groups, shs) ==
    SeqSum([g \in 1..Len(groups) |->
              LET layouts == shs[groups[g][1] + 1].descriptor_set_layouts
                  object_count == Len(groups[g][2])
              IN  IF layouts.is_none THEN 0
                  ELSE SeqSum([l \in 1..Len(layouts.items) |-> object_count])])

\* pool_sizes[dtype] += n, the dict kept as (type, count) pairs in insertion order
RECURSIVE AddPoolSizes(_, _)
AddPoolSizes(pool_sizes, contributions) ==
    IF contributions = <<>> THEN pool_sizes
    ELSE LET c == Head(contributions)
             known == {i \in 1..Len(pool_sizes) : pool_sizes[i][1] = c[1]}
         IN  IF known # {}
             THEN LET i == CHOOSE i \in known : TRUE
                  IN  AddPoolSizes([pool_sizes EXCEPT ![i] = <<@[1], @[2] + c[2]>>],
                                   Tail(contributions))
             ELSE AddPoolSizes(Append(pool_sizes, c), Tail(contributions))

PoolSizes(groups, shs) ==
    AddPoolSizes(<<>>,
        Flatten([g \in 1..Len(groups) |->
            LET layouts == shs[groups[g][1] + 1].descriptor_set_layouts
                object_count == Len(groups[g][2])
            IN  IF layouts.is_none THEN <<>>
                ELSE Flatten([l \in 1..Len(layouts.items) |->
                        [c \in 1..Len(layouts.items[l].pool_size_counts) |->
                            <<layouts.items[l].pool_size_counts[c][1],
                              layouts.items[l].pool_size_counts[c][2] * object_count>>]])]))

\* DataScene._setup_descriptor_sets_pool
SetupDescriptorSetsPool ==
    /\ pc = "setup_descriptor_sets_pool"
    /\ LET groups == GroupObjectsByShaders
       IN  /\ GroupCall(groups)
           /\ descriptor_pool' = [created |-> TRUE,
                                  max_sets |-> PoolMaxSets(groups, shaders),
                                  pool_sizes |-> PoolSizes(groups, shaders),
                                  allocated |-> 0, requests |-> <<>>]
    /\ pc' = "setup_descriptor_sets"
    /\ UNCHANGED <<render_cache, scene, error, shaders, objects, meshes, staging, meshes_buffer,
                   pipelines, uniforms_buffer, write_log, render_commands>>
    /\ UNCHANGED engine_vars
    /\ UNCHANGED ktx

\* The step of range(0, len(set_layouts), objlen) that slices the handles.
SliceStep(objlen, layout_count) == objlen

\* The zip of line 321 for one group: the descriptor_sets attribute of each
\* object of the group after it (prev holds the attributes before it).
AssignDescriptorSets(prev, handles, objlen, layout_count) ==
    LET step == SliceStep(objlen, layout_count)
        starts == (Len(handles) + step - 1) \div step
    IN  [j \in 1..Len(prev) |->
            IF j <= starts
            THEN List(Slice(handles, (j - 1) * step, (j - 1) * step + objlen))
            ELSE prev[j]]

\* The loop of _setup_descriptor_sets over groups[g..].
RECURSIVE DescriptorSetsLoop(_, _, _, _)
DescriptorSetsLoop(groups, shs, g, acc) ==
    IF g > Len(groups) \/ acc.error # "none" THEN acc
    ELSE LET layouts == shs[groups[g][1] + 1].descriptor_set_layouts
             members == groups[g][2]
             objlen == Len(members)
         IN  IF layouts.is_none
             THEN [acc EXCEPT !.error = "TypeError"]
             ELSE LET count == Len(layouts.items) * objlen
                      size == SeqSum([l \in 1..Len(layouts.items) |->
                                        layouts.items[l].struct_map_size_bytes]) * objlen
                  IN  IF acc.allocated + count > acc.max_sets
                      THEN [acc EXCEPT !.error = "VkError",
                                       !.uniforms_buffer_size = @ + size,
                                       !.requests = Append(@, count)]
                      ELSE LET handles == [h \in 1..count |-> acc.allocated + h]
                               given == AssignDescriptorSets(
                                            [j \in 1..objlen |-> acc.objs[members[j]].descriptor_sets],
                                            handles, objlen, Len(layouts.items))
                           IN  DescriptorSetsLoop(groups, shs, g + 1,
                                  [acc EXCEPT
                                     !.uniforms_buffer_size = @ + size,
                                     !.allocated = @ + count,
                                     !.requests = Append(@, count),
                                     !.objs = [k \in 1..Len(acc.objs) |->
                                                 IF k \in Range(members)
                                                 THEN [acc.objs[k] EXCEPT
                                                         !.descriptor_sets = given[IndexOf(members, k)]]
                                                 ELSE acc.objs[k]]])

\* DataScene._setup_descriptor_sets
SetupDescriptorSets ==
    /\ pc = "setup_descriptor_sets"
    /\ LET groups == GroupObjectsByShaders
           done == DescriptorSetsLoop(groups, shaders, 1,
                       [error |-> "none", objs |-> objects,
                        allocated |-> descriptor_pool.allocated,
                        max_sets |-> descriptor_pool.max_sets,
                        requests |-> <<>>,
                        uniforms_buffer_size |-> 0])
       IN  /\ GroupCall(groups)
           /\ objects' = done.objs
           /\ descriptor_pool' = [descriptor_pool EXCEPT !.allocated = done.allocated,
                                                      !.requests = done.requests]
           /\ IF done.error # "none"
              THEN /\ Fail(done.error)
                   /\ UNCHANGED uniforms_buffer
              ELSE /\ uniforms_buffer' = [created |-> TRUE, size |-> done.uniforms_buffer_size]
                   /\ pc' = "setup_descriptor_write_sets"
                   /\ UNCHANGED error
    /\ UNCHANGED <<render_cache, scene, shaders, meshes, staging, meshes_buffer, pipelines,
                   write_log, render_commands>>
    /\ UNCHANGED engine_vars
    /\ UNCHANGED ktx

\* The write sets generated for one object, in the order generate_write_set is
\* called: descriptor sets zipped with the shader's layouts, then the templates
\* of the layout.  Each entry carries the template and the descriptor set.
ObjectTemplates(descriptor_sets, layouts) ==
    Flatten([p \in 1..Min(Len(descriptor_sets), Len(layouts)) |->
                [t \in 1..Len(layouts[p].write_set_templates) |->
                    [dst_set |-> descriptor_sets[p],
                     pair |-> p,
                     wst |-> layouts[p].write_set_templates[t]]]])

\* generate_write_set with a cursor that stays where it is.
RECURSIVE GenerateWriteSetsNoAdvance(_, _, _, _)
GenerateWriteSetsNoAdvance(k, work, i, acc) ==
    IF i > Len(work) \/ acc.error # "none" THEN acc
    ELSE LET w == work[i]
         IN  IF w.wst.descriptor_type = DESCRIPTOR_TYPE_UNIFORM_BUFFER
             THEN GenerateWriteSetsNoAdvance(k, work, i + 1,
                     [acc EXCEPT
                        !.log = Append(@, [object |-> k, dst_set |-> w.dst_set,
                                           pair |-> w.pair,
                                           dst_binding |-> w.wst.binding,
                                           offset |-> acc.uniform_offset,
                                           range |-> w.wst.range])])
             ELSE [acc EXCEPT !.error = "ValueError"]

\* generate_write_set over work[i..]: every template binds range bytes of the
\* uniform buffer at the running uniform_offset; any other type is a ValueError.
RECURSIVE GenerateWriteSets(_, _, _, _)
GenerateWriteSets(k, work, i, acc) ==
    IF i > Len(work) \/ acc.error # "none" THEN acc
    ELSE LET w == work[i]
         IN  IF w.wst.descriptor_type = DESCRIPTOR_TYPE_UNIFORM_BUFFER
             THEN GenerateWriteSets(k, work, i + 1,
                     [acc EXCEPT
                        !.log = Append(@, [object |-> k, dst_set |-> w.dst_set,
                                           pair |-> w.pair,
                                           dst_binding |-> w.wst.binding,
                                           offset |-> acc.uniform_offset,
                                           range |-> w.wst.range]),
                        !.uniform_offset = @ + w.wst.range])
             ELSE [acc EXCEPT !.error = "ValueError"]

\* The loops of _setup_descriptor_write_sets over todo[i..], the object
\* positions in group order; zip(None, ...) is a TypeError.
RECURSIVE WriteSetsLoop(_, _, _, _)
WriteSetsLoop(todo, shs, i, acc) ==
    IF i > Len(todo) \/ acc.error # "none" THEN acc
    ELSE LET k == todo[i]
             obj == acc.objs[k]
             layouts == shs[obj.shader + 1].descriptor_set_layouts
         IN  IF obj.descriptor_sets.is_none \/ layouts.is_none
             THEN [acc EXCEPT !.error = "TypeError"]
             ELSE LET work == ObjectTemplates(obj.descriptor_sets.items, layouts.items)
                      from == Len(acc.log)
                      done == GenerateWriteSets(k, work, 1, acc)
                      pairs == Min(Len(obj.descriptor_sets.items), Len(layouts.items))
                      \* obj.write_sets is overwritten per pair: the last pair's stay
                      kept == SelectSeq(done.log, LAMBDA e : e.object = k /\ e.pair = pairs)
                  IN  WriteSetsLoop(todo, shs, i + 1,
                         [done EXCEPT
                            !.objs = [acc.objs EXCEPT ![k].write_sets =
                                        IF pairs = 0 THEN @ ELSE List(kept)]])

\* DataScene._setup_descriptor_write_sets
SetupDescriptorWriteSets ==
    /\ pc = "setup_descriptor_write_sets"
    /\ LET groups == GroupObjectsByShaders
           todo == Flatten([g \in 1..Len(groups) |-> groups[g][2]])
           done == WriteSetsLoop(todo, shaders, 1,
                       [error |-> "none", objs |-> objects, log |-> <<>>,
                        uniform_offset |-> 0])
       IN  /\ GroupCall(groups)
           /\ objects' = done.objs
           /\ write_log' = done.log
           /\ IF done.error # "none"
              THEN Fail(done.error)
              ELSE /\ pc' = "setup_render_commands"
                   /\ UNCHANGED error
    /\ UNCHANGED <<render_cache, scene, shaders, meshes, staging, meshes_buffer, pipelines,
                   descriptor_pool, uniforms_buffer, render_commands>>
    /\ UNCHANGED engine_vars
    /\ UNCHANGED ktx

\* DataScene._setup_render_commands: one command buffer per framebuffer.
SetupRenderCommands ==
    /\ pc = "setup_render_commands"
    /\ render_commands' = [fb \in 1..FramebufferCount |-> [state |-> "initial", cmds |-> <<>>]]
    /\ pc' = "setup_render_cache"
    /\ UNCHANGED <<render_cache, scene, error, shaders, objects, meshes, staging,
                   meshes_buffer, pipelines, shader_objects, shader_objects_sorted,
                   group_calls, descriptor_pool, uniforms_buffer, write_log>>
    /\ UNCHANGED engine_vars
    /\ UNCHANGED ktx

\* The render-pass-begin template _setup_render_cache builds against the
\* render pass of the engine's render target; its render area is empty.
RenderPassBegin(render_target) ==
    [set |-> TRUE, framebuffer |-> 0, render_pass |-> render_target, extent |-> <<0, 0>>]

\* DataScene._setup_render_cache, the last step of DataScene.__init__
SetupRenderCache ==
    /\ pc = "setup_render_cache"
    /\ render_cache' = RenderPassBegin(engine.render_target)
    /\ pc' = "constructed"
    /\ UNCHANGED <<scene, error, shaders, objects, meshes, staging, meshes_buffer,
                   pipelines, shader_objects, shader_objects_sorted, group_calls,
                   descriptor_pool, uniforms_buffer, write_log, render_commands>>
    /\ UNCHANGED engine_vars
    /\ UNCHANGED ktx

\* The rest of Engine.load(scene) once DataScene(engine, scene) has returned.
Load ==
    /\ pc = "constructed"
    /\ scene_id' = Len(engine.graph)
    /\ engine' = [engine EXCEPT !.graph = Append(@, [compiled |-> TRUE, render_pass |-> None])]
    /\ on_initialized' = on_initialized + 1
    /\ pc' = "compiled"
    /\ UNCHANGED <<scene, error, render_cache, shaders, objects, meshes, staging,
                   meshes_buffer, pipelines, shader_objects, shader_objects_sorted,
                   group_calls, descriptor_pool, uniforms_buffer, write_log,
                   render_commands, released>>
    /\ UNCHANGED ktx

\* Engine.activate(scene) for the scene at position id of the graph.
Activate(id) ==
    /\ pc \in {"setup_shaders", "compiled"}
    /\ id \in 0..(Len(engine.graph) - 1)
    /\ engine' = [engine EXCEPT !.current_scene_index = id]
    /\ UNCHANGED <<scene, pc, error, render_cache, shaders, objects, meshes, staging,
                   meshes_buffer, pipelines, shader_objects, shader_objects_sorted,
                   group_calls, descriptor_pool, uniforms_buffer, write_log,
                   render_commands, scene_id, on_initialized, released>>
    /\ UNCHANGED ktx

\* Binding without the comparison against the pipeline last bound.
BindsPipelineAlways(obj_pipeline, pipeline_index) == obj_pipeline # None

\* The test record() makes before a pipeline bind.
BindsPipeline(obj_pipeline, pipeline_index) ==
    obj_pipeline # None /\ pipeline_index # obj_pipeline

\* The loop of record() over objects[k..]: st holds the commands emitted so far,
\* current_shader_index and pipeline_index.  Indexing a list past its end is an
\* IndexError, which leaves the commands emitted before it.
RECURSIVE RecordLoop(_, _)
RecordLoop(k, st) ==
    IF k > Len(objects) \/ st.error # "none" THEN st
    ELSE LET obj == objects[k]
             shader_index == IF obj.shader # None /\ st.current_shader_index # obj.shader
                             THEN obj.shader ELSE st.current_shader_index
             bind == BindsPipeline(obj.pipeline, st.pipeline_index)
             pipeline_index == IF bind THEN obj.pipeline ELSE st.pipeline_index
         IN  IF bind /\ pipeline_index >= Len(pipelines)
             THEN [st EXCEPT !.error = "IndexError"]
             ELSE
             LET c1 == IF bind
                       THEN Append(st.cmds, [op |-> "bind_pipeline", object |-> k,
                                             pipeline |-> pipelines[pipeline_index + 1]])
                       ELSE st.cmds
                 c2 == IF ~obj.descriptor_sets.is_none
                       THEN Append(c1, [op |-> "bind_descriptor_sets", object |-> k,
                                        layout |-> shaders[shader_index + 1].pipeline_layout,
                                        descriptor_sets |-> obj.descriptor_sets.items])
                       ELSE c1
             IN  IF obj.mesh = None
                 THEN RecordLoop(k + 1, [st EXCEPT !.cmds = c2,
                                                   !.current_shader_index = shader_index,
                                                   !.pipeline_index = pipeline_index])
                 ELSE IF obj.mesh >= Len(meshes)
                 THEN [st EXCEPT !.cmds = c2, !.error = "IndexError"]
                 ELSE LET mesh == meshes[obj.mesh + 1]
                      IN  RecordLoop(k + 1,
                             [st EXCEPT
                                !.cmds = c2 \o
                                   <<[op |-> "bind_index_buffer", object |-> k, mesh |-> mesh],
                                     [op |-> "bind_vertex_buffers", object |-> k, mesh |-> mesh,
                                      shader |-> obj.shader],
                                     [op |-> "draw_indexed", object |-> k, mesh |-> mesh]>>,
                                !.current_shader_index = shader_index,
                                !.pipeline_index = pipeline_index])

\* record() beginning its render pass with the extent left in the template.
RecordStartCachedExtent(framebuffer_index) ==
    [error |-> "none",
     cmds |-> <<[op |-> "begin_command_buffer"],
                [op |-> "begin_render_pass", framebuffer |-> framebuffer_index,
                 render_target |-> engine.render_target,
                 render_pass |-> render_cache.render_pass,
                 extent |-> render_cache.extent]>>,
     current_shader_index |-> None,
     pipeline_index |-> None]

\* record() with the pipeline of index 0 taken as bound already.
RecordStartBound(framebuffer_index) ==
    [error |-> "none",
     cmds |-> <<[op |-> "begin_command_buffer"],
                [op |-> "begin_render_pass", framebuffer |-> framebuffer_index,
                 render_target |-> engine.render_target,
                 render_pass |-> render_cache.render_pass,
                 extent |-> engine.swapchain_extent]>>,
     current_shader_index |-> None,
     pipeline_index |-> 0]

\* record() before its loop: the shader and pipeline last bound are reset,
\* the template gets the framebuffer of the engine's render target and the
\* swapchain extent, the command buffer and the render pass are begun.
RecordStart(framebuffer_index) ==
    [error |-> "none",
     cmds |-> <<[op |-> "begin_command_buffer"],
                [op |-> "begin_render_pass", framebuffer |-> framebuffer_index,
                 render_target |-> engine.render_target,
                 render_pass |-> render_cache.render_pass,
                 extent |-> engine.swapchain_extent]>>,
     current_shader_index |-> None,
     pipeline_index |-> None]

\* DataScene.record(framebuffer_index), called by the renderer for the
\* current scene of the engine.
Record(framebuffer_index) ==
    /\ pc = "compiled"
    /\ scene_id # None
    /\ engine.current_scene_index = scene_id
    /\ LET done == RecordLoop(1, RecordStart(framebuffer_index))
       IN  /\ render_cache' = [render_cache EXCEPT !.framebuffer = framebuffer_index,
                                                   !.extent = engine.swapchain_extent]
           /\ IF done.error # "none"
              THEN /\ render_commands' = [render_commands EXCEPT ![framebuffer_index + 1] =
                                            [state |-> "recording", cmds |-> done.cmds]]
                   /\ Fail(done.error)
              ELSE /\ render_commands' = [render_commands EXCEPT ![framebuffer_index + 1] =
                                            [state |-> "executable",
                                             cmds |-> done.cmds \o
                                                <<[op |-> "end_render_pass"],
                                                  [op |-> "end_command_buffer"]>>]]
                   /\ UNCHANGED <<pc, error>>
    /\ UNCHANGED <<scene, shaders, objects, meshes, staging, meshes_buffer, pipelines,
                   shader_objects, shader_objects_sorted, group_calls,
                   descriptor_pool, uniforms_buffer, write_log>>
    /\ UNCHANGED engine_vars
    /\ UNCHANGED ktx

\* DataShader.free: the handles it destroys, in order; iterating the None
\* that a shader without uniforms has for descriptor_set_layouts is a TypeError.
ShaderFree(shader) ==
    IF shader.descriptor_set_layouts.is_none
    THEN [error |-> "TypeError", released |-> <<>>]
    ELSE [error |-> "none",
          released |-> [p \in 1..Len(shader.descriptor_set_layouts.items) |->
                           shader.descriptor_set_layouts.items[p].set_layout]
                       \o <<shader.pipeline_layout>> \o shader.modules]

\* The loop of DataScene.free over shaders[i..].
RECURSIVE ShadersFree(_, _)
ShadersFree(i, acc) ==
    IF i > Len(shaders) \/ acc.error # "none" THEN acc
    ELSE LET freed == ShaderFree(shaders[i])
         IN  ShadersFree(i + 1, [error |-> freed.error,
                                 released |-> acc.released \o freed.released])

\* DataScene.free, called by Engine.free for the scenes of the graph.
Free ==
    /\ pc = "compiled"
    /\ LET first == <<<<"uniforms_buffer">>, <<"uniforms_alloc">>, <<"descriptor_pool">>>>
                    \o [g \in 1..Len(pipelines) |-> <<"pipeline", pipelines[g].handle>>]
                    \o <<<<"pipeline_cache">>, <<"meshes_buffer">>, <<"meshes_alloc">>>>
           done == ShadersFree(1, [error |-> "none", released |-> first])
       IN  IF done.error # "none"
           THEN /\ released' = done.released
                /\ Fail(done.error)
           ELSE /\ released' = Append(done.released, <<"command_pool">>)
                /\ pc' = "freed"
                /\ UNCHANGED error
    /\ UNCHANGED <<scene, render_cache, shaders, objects, meshes, staging,
                   meshes_buffer, pipelines, shader_objects, shader_objects_sorted,
                   group_calls, descriptor_pool, uniforms_buffer, write_log,
                   render_commands, engine, scene_id, on_initialized>>
    /\ UNCHANGED ktx

Next ==
    \/ SetupShaders
    \/ SetupObjects
    \/ QueueExecutes
    \/ SetupObjectsWait
    \/ SetupPipelines
    \/ SetupDescriptorSetsPool
    \/ SetupDescriptorSets
    \/ SetupDescriptorWriteSets
    \/ SetupRenderCommands
    \/ SetupRenderCache
    \/ Load
    \/ \E id \in 0..(MaxScenes - 1) : Activate(id)
    \/ \E framebuffer_index \in 0..(FramebufferCount - 1) : Record(framebuffer_index)
    \/ Free

Spec == Init /\ [][Next]_vars

\* ------------------------------------------- the engine with several scenes
\* The scenes loaded in full by the engine specification: each compiles.
EngineScenes ==
    {[shaders |-> <<Mat4Shader>>, meshes |-> <<MeshObject(1)>>,
      objects |-> <<[shader |-> 0, mesh |-> 0]>>],
     [shaders |-> <<Mat4Shader, Mat4Shader>>, meshes |-> <<MeshObject(1)>>,
      objects |-> <<[shader |-> 0, mesh |-> 0], [shader |-> 1, mesh |-> 0]>>]}

\* Engine.load of another scene, before or after the load of the scene
\* followed in full: of its DataScene only the render-pass-begin template is
\* kept, built by _setup_render_cache against the render target of the time.
LoadOther ==
    /\ pc \in {"setup_shaders", "compiled"}
    /\ Len(engine.graph) < MaxScenes
    /\ engine' = [engine EXCEPT !.graph =
                     Append(@, [compiled |-> FALSE, render_pass |-> engine.render_target])]
    /\ UNCHANGED <<scene, pc, error, render_cache, shaders, objects, meshes, staging,
                   meshes_buffer, pipelines, shader_objects, shader_objects_sorted,
                   group_calls, descriptor_pool, uniforms_buffer, write_log,
                   render_commands, scene_id, on_initialized, released>>
    /\ UNCHANGED ktx

\* Engine._update_swapchain: the swapchain and the render target are
\* recreated for the new extent, then the scene at current_scene_index alone
\* rebuilds its render cache.
UpdateSwapchain(extent) ==
    /\ pc \in {"setup_shaders", "compiled"}
    /\ engine.current_scene_index # None
    /\ engine.render_target < MaxResizes
    /\ LET current == engine.current_scene_index
           render_target == engine.render_target + 1
       IN  IF current = scene_id
           THEN /\ engine' = [engine EXCEPT !.swapchain_extent = extent,
                                            !.render_target = render_target]
                /\ render_cache' = RenderPassBegin(render_target)
           ELSE /\ engine' = [engine EXCEPT !.swapchain_extent = extent,
                                            !.render_target = render_target,
                                            !.graph[current + 1].render_pass = render_target]
                /\ UNCHANGED render_cache
    /\ UNCHANGED <<scene, pc, error, shaders, objects, meshes, staging,
                   meshes_buffer, pipelines, shader_objects, shader_objects_sorted,
                   group_calls, descriptor_pool, uniforms_buffer, write_log,
                   render_commands, scene_id, on_initialized, released>>
    /\ UNCHANGED ktx

InitEngine == InitOf(EngineScenes) /\ ktx = NoMerge

NextEngine ==
    \/ Next
    \/ LoadOther
    \/ \E extent \in Extents : UpdateSwapchain(extent)

SpecEngine == InitEngine /\ [][NextEngine]_vars

\* --------------------------------------------------------- tools/ktxmerge.py
Max(a, b) == IF a > b THEN a ELSE b

\* The GL fields of the header of a compressed texture (gl_format is 0), in
\* two internal formats.
GLFormats ==
    {[gl_type |-> 0, gl_type_size |-> 1, gl_format |-> 0,
      gl_internal_format |-> f, gl_base_internal_format |-> f] : f \in 1..2}

\* The headers of the input files: plain 2D textures, texture arrays of two
\* elements and cubemaps, of one mipmap level, square or not.
KtxHeaders ==
    {[gl_type |-> gl.gl_type, gl_type_size |-> gl.gl_type_size, gl_format |-> gl.gl_format,
      gl_internal_format |-> gl.gl_internal_format,
      gl_base_internal_format |-> gl.gl_base_internal_format,
      pixel_width |-> w, pixel_height |-> h, pixel_depth |-> 0,
      number_of_array_elements |-> kind[1], number_of_faces |-> kind[2],
      number_of_mipmap_levels |-> 1] :
        gl \in GLFormats, w \in 1..MaxPixels, h \in 1..MaxPixels,
        kind \in {<<0, 1>>, <<2, 1>>, <<0, 6>>}}

\* KTXFile.__init__: the attributes read from the header.
KTXFile(header) ==
    [width |-> header.pixel_width,
     height |-> Max(header.pixel_height, 1),
     depth |-> Max(header.pixel_depth, 1),
     mips_level |-> Max(header.number_of_mipmap_levels, 1),
     array_element |-> Max(header.number_of_array_elements, 1),
     faces |-> Max(header.number_of_faces, 1),
     header |-> header]

\* check_mismatch(obj, member, value) on the header dictionary of st; a
\* mismatch raises KTXException, which ends the merge.
check_mismatch(st, member, value) ==
    IF st.error # "none" THEN st
    ELSE IF st.header[member] = None THEN [st EXCEPT !.header[member] = value]
    ELSE IF st.header[member] # value THEN [st EXCEPT !.error = "KTXException"]
    ELSE st

\* The value merge_array checks against the pixel_height of the header.
HeightChecked(f) == f.width

\* The loop of merge_array over inputs[i..].
RECURSIVE MergeLoop(_, _, _)
MergeLoop(inputs, i, st) ==
    IF i > Len(inputs) \/ st.error # "none" THEN st
    ELSE LET f == KTXFile(inputs[i])
         IN  IF f.array_element > 1 \/ f.faces > 1
             THEN [st EXCEPT !.error = "KTXException"]
             ELSE LET s1 == check_mismatch(st, "pixel_width", f.width)
                      s2 == check_mismatch(s1, "pixel_height", HeightChecked(f))
                      s3 == check_mismatch(s2, "number_of_mipmap_levels", f.mips_level)
                      s4 == check_mismatch(s3, "gl_type", f.header.gl_type)
                      s5 == check_mismatch(s4, "gl_type_size", f.header.gl_type_size)
                      s6 == check_mismatch(s5, "gl_format", f.header.gl_format)
                      s7 == check_mismatch(s6, "gl_internal_format", f.header.gl_internal_format)
                      s8 == check_mismatch(s7, "gl_base_internal_format",
                                           f.header.gl_base_internal_format)
                  IN  MergeLoop(inputs, i + 1, s8)

\* The header dictionary merge_array starts from.
MergeStart(inputs) ==
    [error |-> "none",
     header |-> [gl_type |-> None, gl_type_size |-> None, gl_format |-> None,
                 gl_internal_format |-> None, gl_base_internal_format |-> None,
                 pixel_width |-> None, pixel_height |-> None, pixel_depth |-> 0,
                 number_of_array_elements |-> Len(inputs), number_of_faces |-> 1,
                 number_of_mipmap_levels |-> None]]

\* KTXFile.merge_array(*inputs)
MergeArray ==
    /\ ktx.state = "ready"
    /\ LET done == MergeLoop(ktx.inputs, 1, MergeStart(ktx.inputs))
       IN  IF done.error # "none"
           THEN ktx' = [ktx EXCEPT !.state = "failed", !.error = done.error]
           ELSE ktx' = [ktx EXCEPT !.state = "merged", !.header = done.header]
    /\ UNCHANGED <<scene, pc, error, render_cache, shaders, objects, meshes, staging,
                   meshes_buffer, pipelines, shader_objects, shader_objects_sorted,
                   group_calls, descriptor_pool, uniforms_buffer, write_log,
                   render_commands, engine, scene_id, on_initialized, released>>

\* The tool is run on one to MaxInputs files that KTXFile.open accepts; no
\* scene is loaded.
InitKtx ==
    /\ InitOf({[shaders |-> <<>>, meshes |-> <<>>, objects |-> <<>>]})
    /\ ktx \in {[state |-> "ready", inputs |-> inputs, error |-> "none", header |-> <<>>] :
                  inputs \in SeqsUpTo(KtxHeaders, MaxInputs)}

NextKtx == MergeArray

SpecKtx == InitKtx /\ [][NextKtx]_vars

\* ------------------------------------------------------------------ claims
\* Which steps of the compilation have run (a failed step has run too).
PipelinesBuilt == Len(group_calls) >= 1
PoolCreated == descriptor_pool.created
DescriptorSetsAllocated == uniforms_buffer.created
WriteSetsGenerated == pc \in {"setup_render_commands", "setup_render_cache", "compiled"}
                      \/ render_commands # <<>>
ObjectsPacked == staging.state = "freed"

\* The shader indices referenced by at least one object of the scene.
ReferencedShaders == {scene.objects[k].shader : k \in 1..Len(scene.objects)}
\* The objects (positions) of the scene that reference shader index s.
ObjectsOf(s) == {k \in 1..Len(scene.objects) : scene.objects[k].shader = s}
\* The number of descriptor sets shader index s declares.
DeclaredSets(s) ==
    Cardinality({scene.shaders[s + 1].uniforms[u].set :
                    u \in 1..Len(scene.shaders[s + 1].uniforms)})
\* The bytes of uniform data one object of shader index s needs.
UniformBytes(s) ==
    SeqSum([u \in 1..Len(scene.shaders[s + 1].uniforms) |->
              SizeofStruct(scene.shaders[s + 1].uniforms[u])])

RECURSIVE SetSum(_, _)
SetSum(S, f) ==
    IF S = {} THEN 0
    ELSE LET x == CHOOSE x \in S : TRUE IN f[x] + SetSum(S \ {x}, f)

\* C1: once the pipelines are built, the pipeline index stored on every object
\* selects, in DataScene.pipelines, the pipeline built from the object's own
\* shader (stages, vertex input layout, pipeline layout), and every pipeline
\* bind record() emits for an object names that pipeline.
C1_PipelineIndexSelectsOwnShader ==
    PipelinesBuilt =>
        /\ \A k \in 1..Len(objects) :
              /\ objects[k].pipeline # None
              /\ objects[k].pipeline < Len(pipelines)
              /\ LET p == pipelines[objects[k].pipeline + 1]
                     sh == shaders[objects[k].shader + 1]
                 IN  /\ p.stages = sh.stage_infos
                     /\ p.vertex_input_state = sh.vertex_input_state
                     /\ p.layout = sh.pipeline_layout
        /\ \A fb \in 1..Len(render_commands) :
              \A c \in 1..Len(render_commands[fb].cmds) :
                 LET cmd == render_commands[fb].cmds[c]
                 IN  cmd.op = "bind_pipeline" =>
                        cmd.pipeline.stages = shaders[objects[cmd.object].shader + 1].stage_infos

\* The handles the allocations of the groups before group g returned.
RECURSIVE HandlesBefore(_, _)
HandlesBefore(groups, g) ==
    IF g <= 1 THEN 0
    ELSE HandlesBefore(groups, g - 1)
         + Len(groups[g - 1][2]) * DeclaredSets(groups[g - 1][1])

\* C2: once the descriptor sets are allocated, every group of N objects whose
\* shader has L set layouts requested N * L sets, and its k-th object holds
\* exactly the handles [k * L, (k + 1) * L) of the group's allocation, in order.
C2_EachObjectGetsItsSlice ==
    DescriptorSetsAllocated =>
        \A g \in 1..Len(shader_objects) :
            LET members == shader_objects[g][2]
                N == Len(members)
                L == DeclaredSets(shader_objects[g][1])
                base == HandlesBefore(shader_objects, g)
            IN  /\ descriptor_pool.requests[g] = N * L
                /\ \A j \in 1..N :
                      LET ds == objects[members[j]].descriptor_sets
                      IN  /\ ~ds.is_none
                          /\ ds.items = [i \in 1..L |-> base + (j - 1) * L + i]

\* C3: once the write sets are generated, the byte ranges they bound add up to
\* the size of the uniform buffer, which is the sum over groups of
\* object_count times the shader's packed struct sizes.
C3_BoundRangesFillUniformBuffer ==
    WriteSetsGenerated =>
        /\ SeqSum([i \in 1..Len(write_log) |-> write_log[i].range]) = uniforms_buffer.size
        /\ uniforms_buffer.size =
              SetSum(ReferencedShaders,
                     [s \in ReferencedShaders |-> Cardinality(ObjectsOf(s)) * UniformBytes(s)])

\* The scene of two objects sharing one 4x4-matrix shader and one mesh.
EndToEndScene ==
    /\ scene.shaders = <<Mat4Shader>>
    /\ scene.meshes = <<MeshObject(1)>>
    /\ scene.objects = <<[shader |-> 0, mesh |-> 0], [shader |-> 0, mesh |-> 0]>>

Ops(cmds) == [c \in 1..Len(cmds) |-> cmds[c].op]
IsDrawOp(op) == op \in {"bind_index_buffer", "bind_vertex_buffers", "draw_indexed"}
\* The pipeline binds, descriptor-set binds and draws of a command sequence.
DrawOps(cmds) ==
    SelectSeq(Ops(cmds), LAMBDA op : op \in {"bind_pipeline", "bind_descriptor_sets", "draw_indexed"})

\* C4: compiling the end-to-end scene never fails; it yields 1 pipeline, one
\* descriptor set per object (2 in all), a uniform buffer of 128 bytes, and
\* record() emits one pipeline bind, then two (descriptor bind, draw) pairs.
C4_EndToEnd ==
    EndToEndScene =>
        /\ pc # "failed"
        /\ PipelinesBuilt => Len(pipelines) = 1
        /\ DescriptorSetsAllocated =>
              /\ descriptor_pool.allocated = 2
              /\ uniforms_buffer.size = 128
              /\ \A k \in 1..2 : /\ ~objects[k].descriptor_sets.is_none
                                 /\ Len(objects[k].descriptor_sets.items) = 1
        /\ \A fb \in 1..Len(render_commands) :
              render_commands[fb].state = "executable" =>
                 DrawOps(render_commands[fb].cmds) =
                    <<"bind_pipeline", "bind_descriptor_sets", "draw_indexed",
                      "bind_descriptor_sets", "draw_indexed">>

\* C5: once the pipelines are built, there is one pipeline per shader index
\* referenced by an object, and every pipeline is built from such a shader.
C5_PipelineCount ==
    PipelinesBuilt =>
        /\ Len(pipelines) = Cardinality(ReferencedShaders)
        /\ \A s \in ReferencedShaders :
              Cardinality({g \in 1..Len(pipelines) :
                              pipelines[g].stages = shaders[s + 1].stage_infos}) = 1

C5_Witness ==
    /\ pc = "compiled"
    /\ Len(scene.shaders) = 2
    /\ Len(scene.objects) = 3
    /\ Len(pipelines) = 2

C5_WitnessUnreferenced ==
    /\ PipelinesBuilt
    /\ Len(scene.shaders) = 2
    /\ Len(scene.objects) >= 2
    /\ Len(pipelines) = 1

\* The meshes (identities) referenced by at least one object of the scene.
ReferencedMeshes ==
    {scene.meshes[scene.objects[k].mesh + 1].id : k \in 1..Len(scene.objects)} \ {None}

\* C6: once the objects are packed, every distinct mesh referenced by an object
\* has exactly one DataMesh entry (one base offset, one byte region), and there
\* is no other entry, however many objects reference the mesh.
C6_MeshPackedOnce ==
    ObjectsPacked =>
        /\ \A id \in ReferencedMeshes :
              Cardinality({m \in 1..Len(meshes) : meshes[m].mesh.id = id}) = 1
        /\ Len(meshes) = Cardinality(ReferencedMeshes)
        /\ staging.buffer_size = SeqSum([m \in 1..Len(meshes) |-> meshes[m].mesh.size])

C6_Witness ==
    /\ ObjectsPacked
    /\ Len(scene.objects) = 3
    /\ \A k \in 1..3 : scene.meshes[scene.objects[k].mesh + 1].id = 1
    /\ Len(meshes) = 1

\* C7: every call of _group_objects_by_shaders returns the same groups in the
\* same order: they are the groups of the object list, computed by the first
\* call and memoized, so all compile steps iterate the same groups.
C7_GroupingIdempotent ==
    /\ \A i \in 1..Len(group_calls) :
          /\ group_calls[i] = group_calls[1]
          /\ group_calls[i] = GroupObjects(objects)
    /\ shader_objects_sorted <=> Len(group_calls) >= 1
    /\ shader_objects_sorted => shader_objects = group_calls[1]

C7_Witness ==
    /\ pc = "compiled"
    /\ Len(group_calls) = 4
    /\ Len(shader_objects) = 2
    /\ Len(objects) = 3

\* C8: the memoized groups partition the object list by shader index: every
\* object is in exactly one group, a group holds exactly the objects of its
\* shader index in declaration order, and groups are ordered by the first
\* occurrence of their shader index in the object list.
C8_GroupingIsPartition ==
    shader_objects_sorted =>
        LET groups == shader_objects
            first(g) == groups[g][2][1]
        IN  /\ \A k \in 1..Len(objects) :
                  Cardinality({g \in 1..Len(groups) : k \in Range(groups[g][2])}) = 1
            /\ \A g \in 1..Len(groups) :
                  /\ Range(groups[g][2]) = ObjectsOf(groups[g][1])
                  /\ Len(groups[g][2]) = Cardinality(ObjectsOf(groups[g][1]))
                  /\ \A i, j \in 1..Len(groups[g][2]) :
                        i < j => groups[g][2][i] < groups[g][2][j]
            /\ \A g, h \in 1..Len(groups) :
                  g < h => /\ groups[g][1] # groups[h][1]
                           /\ first(g) < first(h)

\* the first object references a higher shader index than a later one
C8_Witness ==
    /\ shader_objects_sorted
    /\ Len(shader_objects) = 2
    /\ shader_objects[1][1] > shader_objects[2][1]
    /\ Len(shader_objects[2][2]) = 2

\* C9: the pool's max-set count is the sum over groups of object_count times
\* set_layout_count; the sets requested from the pool never exceed it, and
\* once every group is allocated they equal it.
C9_PoolMaxSets ==
    PoolCreated =>
        /\ descriptor_pool.max_sets =
              SetSum(ReferencedShaders,
                     [s \in ReferencedShaders |-> Cardinality(ObjectsOf(s)) * DeclaredSets(s)])
        /\ SeqSum(descriptor_pool.requests) <= descriptor_pool.max_sets
        /\ descriptor_pool.allocated = SeqSum(descriptor_pool.requests)
        /\ DescriptorSetsAllocated =>
              SeqSum(descriptor_pool.requests) = descriptor_pool.max_sets

C9_Witness ==
    /\ DescriptorSetsAllocated
    /\ Len(shader_objects) = 2
    /\ descriptor_pool.max_sets = 4
    /\ Len(descriptor_pool.requests) = 2
    /\ \E g \in 1..2 : Len(shader_objects[g][2]) # DeclaredSets(shader_objects[g][1])

\* The pipeline bound when record() reaches object k: that of the nearest
\* earlier object that has one (None if there is none).
LastPipelineBefore(k) ==
    LET earlier == {j \in 1..(k - 1) : objects[j].pipeline # None}
    IN  IF earlier = {} THEN None
        ELSE objects[CHOOSE j \in earlier : \A i \in earlier : i <= j].pipeline

\* The maximal runs of equal pipeline indices in object order.
PipelineRuns ==
    Cardinality({k \in 1..Len(objects) :
                   objects[k].pipeline # None /\ objects[k].pipeline # LastPipelineBefore(k)})

BindCmds(cmds) == SelectSeq(cmds, LAMBDA c : c.op = "bind_pipeline")

\* C10: in every recording, two consecutive pipeline binds never name the same
\* pipeline; in a completed recording a bind is emitted for an object exactly
\* when its pipeline differs from the one last bound (always for the first),
\* so the binds number the maximal runs of equal pipeline indices.
C10_BindOnlyOnChange ==
    \A fb \in 1..Len(render_commands) :
        LET binds == BindCmds(render_commands[fb].cmds)
        IN  /\ \A i \in 1..(Len(binds) - 1) :
                  /\ binds[i].pipeline.handle # binds[i + 1].pipeline.handle
                  /\ binds[i].object < binds[i + 1].object
            /\ render_commands[fb].state = "executable" =>
                  /\ Len(binds) = PipelineRuns
                  /\ \A k \in 1..Len(objects) :
                        (\E i \in 1..Len(binds) : binds[i].object = k)
                           <=> (objects[k].pipeline # None
                                /\ objects[k].pipeline # LastPipelineBefore(k))

\* objects of one pipeline interleaved with another: three binds for two pipelines
C10_Witness ==
    \E fb \in 1..Len(render_commands) :
        /\ render_commands[fb].state = "executable"
        /\ Len(objects) = 3
        /\ objects[1].pipeline = objects[3].pipeline
        /\ objects[1].pipeline # objects[2].pipeline
        /\ Len(BindCmds(render_commands[fb].cmds)) = 3

\* The place of a command in the commands of one object (0: not an object command).
OpRank(op) ==
    CASE op = "bind_pipeline" -> 1
      [] op = "bind_descriptor_sets" -> 2
      [] op = "bind_index_buffer" -> 3
      [] op = "bind_vertex_buffers" -> 4
      [] op = "draw_indexed" -> 5
      [] OTHER -> 0

\* The commands between the begin pair and the end pair.
Body(cmds) == SubSeq(cmds, 3, Len(cmds) - 2)

ObjectOps(cmds, k) == {c.op : c \in {Body(cmds)[i] : i \in {j \in 1..Len(Body(cmds)) : Body(cmds)[j].object = k}}}

\* A command sequence without the framebuffer it was recorded for.
AnyFramebuffer(cmds) ==
    [i \in 1..Len(cmds) |->
        IF cmds[i].op = "begin_render_pass" THEN [cmds[i] EXCEPT !.framebuffer = 0] ELSE cmds[i]]

\* C11: a completed recording is one begin-command-buffer/begin-render-pass
\* pair, the commands of the objects in declaration order, and one
\* end-render-pass/end-command-buffer pair; the commands of one object come in
\* the order pipeline bind, descriptor-set bind, index-buffer bind,
\* vertex-buffer bind, draw, each at most once, the descriptor-set bind exactly
\* when the object has descriptor sets and the three mesh commands exactly when
\* it has a mesh; the first object that has a pipeline always gets its bind
\* (nothing is kept from an earlier call), and two completed recordings with
\* nothing changed in between are the same commands.
C11_RecordOrder ==
    \A fb \in 1..Len(render_commands) :
        render_commands[fb].state = "executable" =>
            LET cmds == render_commands[fb].cmds
                n == Len(cmds)
                body == Body(cmds)
            IN  /\ n >= 4
                /\ cmds[1].op = "begin_command_buffer"
                /\ cmds[2].op = "begin_render_pass"
                /\ cmds[2].framebuffer = fb - 1
                /\ cmds[n - 1].op = "end_render_pass"
                /\ cmds[n].op = "end_command_buffer"
                /\ \A i \in 1..Len(body) : OpRank(body[i].op) > 0
                /\ \A i \in 1..(Len(body) - 1) :
                      \/ body[i].object < body[i + 1].object
                      \/ /\ body[i].object = body[i + 1].object
                         /\ OpRank(body[i].op) < OpRank(body[i + 1].op)
                /\ \A k \in 1..Len(objects) :
                      /\ ("bind_descriptor_sets" \in ObjectOps(cmds, k))
                            <=> ~objects[k].descriptor_sets.is_none
                      /\ \A op \in {"bind_index_buffer", "bind_vertex_buffers", "draw_indexed"} :
                            (op \in ObjectOps(cmds, k)) <=> (objects[k].mesh # None)
                      /\ (objects[k].pipeline # None /\ LastPipelineBefore(k) = None)
                            => "bind_pipeline" \in ObjectOps(cmds, k)
                /\ \A other \in 1..Len(render_commands) :
                      render_commands[other].state = "executable" =>
                          AnyFramebuffer(render_commands[other].cmds) = AnyFramebuffer(cmds)

\* every framebuffer recorded for three objects of two pipelines
C11_Witness ==
    /\ Len(render_commands) >= 2
    /\ \A fb \in 1..Len(render_commands) : render_commands[fb].state = "executable"
    /\ Len(objects) = 3
    /\ Len(BindCmds(render_commands[1].cmds)) >= 2
    /\ Len(render_commands[1].cmds) > 4 + 3 * 4

\* The handles a scene holds once compiled.
SceneHandles == <<meshes_buffer, uniforms_buffer, pipelines, descriptor_pool, objects, meshes>>

\* The begin-render-pass command of the recording of a framebuffer.
BeginRenderPass(fb) == render_commands[fb].cmds[2]

\* C12: a recording made since the last resize begins its render pass with the
\* extent that resize brought; a resize leaves the mesh buffer, the uniform buffer, the pipelines (viewport
\* included), the descriptor pool and the descriptor sets of the objects as
\* they were.
C12_ResizeThenRecord ==
    /\ [](\A fb \in 1..Len(render_commands) :
             (render_commands[fb].state # "initial"
              /\ BeginRenderPass(fb).render_target = engine.render_target)
                 => BeginRenderPass(fb).extent = engine.swapchain_extent)
    /\ [][(engine'.render_target # engine.render_target) => UNCHANGED SceneHandles]_vars

\* a frame recorded after a resize to another extent, with pipelines that keep
\* the viewport of the first extent
C12_Witness ==
    /\ engine.render_target = 1
    /\ engine.swapchain_extent = <<640, 480>>
    /\ \E fb \in 1..Len(render_commands) :
          /\ render_commands[fb].state = "executable"
          /\ BeginRenderPass(fb).render_target = 1
          /\ BeginRenderPass(fb).extent = <<640, 480>>
          /\ \E c \in Range(render_commands[fb].cmds) :
                c.op = "bind_pipeline" /\ c.pipeline.viewport = DefaultExtent

\* The render pass the template of the scene at position i of the graph was
\* built against.
TemplateOf(i) ==
    IF i = scene_id THEN render_cache.render_pass ELSE engine.graph[i + 1].render_pass

\* C13: every loaded scene holds a render-pass-begin template built against
\* the current render target, so after a resize none keeps a template of the
\* render target the resize replaced.
C13_EveryLoadedSceneRebuilt ==
    \A i \in 0..(Len(engine.graph) - 1) : TemplateOf(i) = engine.render_target

\* C14: a scene whose objects all use shaders without uniforms compiles to
\* completion.
C14_UniformlessShaderCompiles ==
    (/\ Len(scene.objects) > 0
     /\ \A k \in 1..Len(scene.objects) :
           scene.shaders[scene.objects[k].shader + 1].uniforms = <<>>)
        => pc # "failed"

\* C15: the range of every write-set template and the struct_map_size_bytes of
\* every set layout is a multiple of 16.
C15_PackedSizeAligned ==
    \A i \in 1..Len(shaders) :
        \A l \in Range(shaders[i].descriptor_set_layouts.items) :
            /\ l.struct_map_size_bytes % 16 = 0
            /\ \A t \in Range(l.write_set_templates) : t.range % 16 = 0

\* The floats of one field: 4, 9 or 16 per member, times the member count.
FieldFloats(field) ==
    field.count * (CASE field.type = FLOAT_MAT2 -> 4
                     [] field.type = FLOAT_MAT3 -> 9
                     [] field.type = FLOAT_MAT4 -> 16
                     [] OTHER -> 0)

ValidField(field) == field.type \in {FLOAT_MAT2, FLOAT_MAT3, FLOAT_MAT4}

\* The uniforms a shader declares in the set of a layout, by binding.
UniformOf(mapping, l, t) ==
    CHOOSE k \in 1..Len(mapping.uniforms) :
        /\ StructMap(<<mapping.uniforms[k]>>) \subseteq l.struct_map
        /\ mapping.uniforms[k].binding = t.binding

\* C16: once the shaders were set up, either every field of every uniform has
\* one of the three member types, and then the structure of each uniform block
\* is the float arrays of its fields, count * 4, count * 9 or count * 16 floats
\* long; or some field has another member type, and then the set-up failed
\* with ValueError and produced no shader.
C16_MemberAsCtype ==
    pc # "setup_shaders" =>
        IF \A i \in 1..Len(scene.shaders) :
              \A k \in 1..Len(scene.shaders[i].uniforms) :
                 \A f \in Range(scene.shaders[i].uniforms[k].fields) : ValidField(f)
        THEN /\ Len(shaders) = Len(scene.shaders)
             /\ \A i \in 1..Len(shaders) :
                   \A l \in Range(shaders[i].descriptor_set_layouts.items) :
                      \A t \in Range(l.write_set_templates) :
                         LET fields == scene.shaders[i].uniforms[UniformOf(scene.shaders[i], l, t)].fields
                         IN  t.range = SizeofFloat * SeqSum([f \in 1..Len(fields) |-> FieldFloats(fields[f])])
        ELSE /\ pc = "failed"
             /\ error = "ValueError"
             /\ shaders = <<>>

\* a block of two 3x3 matrices followed by one 2x2 matrix: 18 + 4 floats
C16_Witness ==
    /\ pc = "compiled"
    /\ Len(shaders) = 1
    /\ scene.shaders[1].uniforms[1].fields =
          <<[type |-> FLOAT_MAT3, count |-> 2], [type |-> FLOAT_MAT2, count |-> 1]>>
    /\ shaders[1].descriptor_set_layouts.items[1].write_set_templates[1].range = 88

\* C17: at most one transfer is in flight; the staging buffer is released only
\* once the copy it feeds has completed, and from then on (the upload step
\* has returned) no transfer is in flight, the mesh buffer holds all the
\* staged bytes and the setup fence is unsignaled again.
C17_SynchronousUpload ==
    /\ engine.in_flight <= 1
    /\ engine.in_flight = 1 => (pc = "setup_objects_wait" /\ staging.state = "staged")
    /\ staging.state = "freed" =>
          /\ engine.in_flight = 0
          /\ meshes_buffer.copied = meshes_buffer.size
          /\ engine.setup_fence = "unsignaled"
    /\ pc = "setup_objects_wait" =>
          (engine.setup_fence = "signaled" <=> engine.in_flight = 0)

\* the upload step has returned: the bytes of two meshes were copied
C17_Witness ==
    /\ pc = "setup_pipelines"
    /\ staging.state = "freed"
    /\ Len(meshes) = 2
    /\ meshes_buffer.copied >= staging.buffer_size
    /\ staging.buffer_size > 0
    /\ engine.setup_fence = "unsignaled"

\* The place of a handle in the order of release.
ReleasedAt(handle) == IndexOf(released, handle)

\* C18: free() releases the handles of every shader in the reverse of the
\* order of their acquisition: the pipeline layout, then the set layouts, then
\* the stage modules.
C18_ReverseAcquisitionOrder ==
    pc = "freed" =>
        \A i \in 1..Len(shaders) :
            /\ \A l \in Range(shaders[i].descriptor_set_layouts.items) :
                  /\ ReleasedAt(shaders[i].pipeline_layout) < ReleasedAt(l.set_layout)
                  /\ \A module \in Range(shaders[i].modules) :
                        ReleasedAt(l.set_layout) < ReleasedAt(module)
            /\ \A module \in Range(shaders[i].modules) :
                  ReleasedAt(shaders[i].pipeline_layout) < ReleasedAt(module)

\* The scene has an entry in the graph of the engine.
InGraph == \E i \in 1..Len(engine.graph) : engine.graph[i].compiled

\* C19: a scene whose compilation failed (a step of DataScene.__init__ raised,
\* so the last step never ran) is not in the graph of the engine, has no id
\* and its on_initialized was not called; a scene is registered only with all
\* the steps done, once; and after a failure nothing is tried again.
C19_LoadAllOrNothing ==
    /\ []((pc = "failed" /\ ~render_cache.set) =>
             (~InGraph /\ scene_id = None /\ on_initialized = 0 /\ error # "none"))
    /\ [](scene_id # None =>
             /\ render_cache.set
             /\ on_initialized = 1
             /\ scene_id < Len(engine.graph)
             /\ engine.graph[scene_id + 1].compiled
             /\ Cardinality({i \in 1..Len(engine.graph) : engine.graph[i].compiled}) = 1)
    /\ [](scene_id = None => (~InGraph /\ on_initialized = 0))
    /\ [][pc = "failed" => UNCHANGED <<pc, error, engine, scene_id, on_initialized>>]_vars

\* the compilation failed in its sixth step on an unsupported descriptor type,
\* with the pool and the uniform buffer built
C19_Witness ==
    /\ pc = "failed"
    /\ error = "ValueError"
    /\ ~render_cache.set
    /\ descriptor_pool.created
    /\ uniforms_buffer.created
    /\ engine.graph = <<>>
    /\ scene_id = None
    /\ on_initialized = 0

\* The object (position) that references a mesh identity first.
FirstReference(id) ==
    CHOOSE k \in 1..Len(scene.objects) :
        /\ scene.meshes[scene.objects[k].mesh + 1].id = id
        /\ \A j \in 1..(k - 1) : scene.meshes[scene.objects[j].mesh + 1].id # id

\* C20: the packed meshes are in the order in which the objects first reference
\* them; the first has offset 0 and each later one the sum of the sizes of
\* those before it, so the offsets grow strictly and the byte regions of two
\* meshes never overlap; the staging buffer has the sum of the sizes.
C20_MeshOffsets ==
    ObjectsPacked =>
        /\ \A m \in 1..Len(meshes) :
              meshes[m].base_offset = SeqSum([j \in 1..(m - 1) |-> meshes[j].mesh.size])
        /\ Len(meshes) > 0 => meshes[1].base_offset = 0
        /\ \A m, n \in 1..Len(meshes) :
              m < n => /\ meshes[m].base_offset < meshes[n].base_offset
                       /\ meshes[m].base_offset + meshes[m].mesh.size <= meshes[n].base_offset
                       /\ FirstReference(meshes[m].mesh.id) < FirstReference(meshes[n].mesh.id)
        /\ \A m \in 1..Len(meshes) :
              meshes[m].base_offset + meshes[m].mesh.size <= staging.buffer_size
        /\ staging.buffer_size =
              SetSum(ReferencedMeshes,
                     [id \in ReferencedMeshes |->
                         scene.meshes[scene.objects[FirstReference(id)].mesh + 1].size])

\* two meshes, the larger referenced first: regions [0, 20) and [20, 32)
C20_Witness ==
    /\ ObjectsPacked
    /\ Len(meshes) = 2
    /\ meshes[1].mesh.size > meshes[2].mesh.size
    /\ meshes[1].base_offset = 0
    /\ meshes[2].base_offset = 20
    /\ staging.buffer_size = 32

\* C21: the mesh buffer has the size of the staging buffer, and the copy
\* moves no more bytes than the staging buffer holds, whatever the size of the
\* allocation behind the staging buffer.
C21_MeshBufferSizedAsStaging ==
    meshes_buffer.state = "created" =>
        /\ meshes_buffer.size = staging.buffer_size
        /\ meshes_buffer.copied <= staging.buffer_size

\* The handles and allocations a compiled scene holds.
CreatedHandles ==
    {<<"uniforms_buffer">>, <<"uniforms_alloc">>, <<"descriptor_pool">>,
     <<"pipeline_cache">>, <<"meshes_buffer">>, <<"meshes_alloc">>, <<"command_pool">>}
    \cup {<<"pipeline", pipelines[g].handle>> : g \in 1..Len(pipelines)}
    \cup UNION {Range(shaders[i].modules) \cup {shaders[i].pipeline_layout}
                \cup {l.set_layout : l \in Range(shaders[i].descriptor_set_layouts.items)} :
                    i \in 1..Len(shaders)}

TimesReleased(handle) == Cardinality({i \in 1..Len(released) : released[i] = handle})

\* C22: once free() was called on a compiled scene, every handle and
\* allocation the scene holds was released exactly once and nothing else was;
\* the staging buffer was released by the compilation already.
C22_ReleasedExactlyOnce ==
    released # <<>> =>
        /\ \A handle \in CreatedHandles : TimesReleased(handle) = 1
        /\ Range(released) \subseteq CreatedHandles
        /\ staging.state = "freed"

\* The mesh commands of a command sequence.
MeshCmds(cmds) ==
    SelectSeq(cmds, LAMBDA c : c.op \in {"bind_index_buffer", "bind_vertex_buffers", "draw_indexed"})

\* C23: record() never fails on the look-up of a mesh, and every index-buffer
\* bind, vertex-buffer bind and draw it emits for an object uses the mesh that
\* the object references in the mesh list of the scene.
C23_DrawsReferencedMesh ==
    \A fb \in 1..Len(render_commands) :
        LET cmds == MeshCmds(render_commands[fb].cmds)
        IN  /\ \A c \in 1..Len(cmds) :
                  cmds[c].mesh.mesh.id = scene.meshes[scene.objects[cmds[c].object].mesh + 1].id
            /\ render_commands[fb].state = "recording" =>
                  \A k \in 1..Len(objects) : objects[k].mesh < Len(meshes)

\* The place of an object in the order of the groups.
GroupOrder(k) ==
    IndexOf(Flatten([g \in 1..Len(shader_objects) |-> shader_objects[g][2]]), k)

\* C24: the byte ranges bound by the write sets follow one cursor: the first
\* starts at 0 and each next one where the one before ended, in the order of
\* the groups, then the objects, then the sets; so the ranges bound to two
\* (object, descriptor set, binding) triples are distinct triples with
\* disjoint ranges inside the uniform buffer, and two objects share no byte.
C24_RunningCursor ==
    /\ \A i \in 1..Len(write_log) :
          /\ write_log[i].offset = SeqSum([j \in 1..(i - 1) |-> write_log[j].range])
          /\ write_log[i].range > 0
          /\ write_log[i].offset + write_log[i].range <= uniforms_buffer.size
    /\ \A i, j \in 1..Len(write_log) :
          i < j =>
             /\ write_log[i].offset + write_log[i].range <= write_log[j].offset
             /\ <<write_log[i].object, write_log[i].dst_set, write_log[i].dst_binding>>
                   # <<write_log[j].object, write_log[j].dst_set, write_log[j].dst_binding>>
             /\ \/ GroupOrder(write_log[i].object) < GroupOrder(write_log[j].object)
                \/ /\ write_log[i].object = write_log[j].object
                   /\ write_log[i].pair <= write_log[j].pair

\* two objects of two shaders, the second with two sets of one and two blocks:
\* four ranges, 0..64, 64..80, 80..116, 116..180
C24_Witness ==
    /\ WriteSetsGenerated
    /\ Len(write_log) >= 4
    /\ \E i, j \in 1..Len(write_log) : write_log[i].object # write_log[j].object
    /\ \E i \in 1..Len(write_log) : write_log[i].pair = 2
    /\ write_log[Len(write_log)].offset + write_log[Len(write_log)].range = uniforms_buffer.size

\* The inputs are plain textures that agree on width, height, mipmap levels
\* and GL fields.
Mergeable(inputs) ==
    \A i \in 1..Len(inputs) :
        /\ KTXFile(inputs[i]).array_element = 1
        /\ KTXFile(inputs[i]).faces = 1
        /\ KTXFile(inputs[i]).width = KTXFile(inputs[1]).width
        /\ KTXFile(inputs[i]).height = KTXFile(inputs[1]).height
        /\ KTXFile(inputs[i]).mips_level = KTXFile(inputs[1]).mips_level
        /\ \A member \in {"gl_type", "gl_type_size", "gl_format", "gl_internal_format",
                          "gl_base_internal_format"} :
              inputs[i][member] = inputs[1][member]

\* C25: merge_array succeeds exactly on inputs that are plain textures agreeing
\* on width, height, mipmap levels and GL fields, and raises KTXException
\* otherwise; the merged header has as many array elements as inputs, one face,
\* and the width and the height of the inputs.
C25_MergeArray ==
    /\ ktx.state = "merged" =>
          /\ Mergeable(ktx.inputs)
          /\ ktx.header.number_of_array_elements = Len(ktx.inputs)
          /\ ktx.header.number_of_faces = 1
          /\ ktx.header.pixel_width = KTXFile(ktx.inputs[1]).width
          /\ ktx.header.pixel_height = KTXFile(ktx.inputs[1]).height
    /\ ktx.state = "failed" => (~Mergeable(ktx.inputs) /\ ktx.error = "KTXException")
====
